---- MODULE Spec2Model ----
(***************************************************************************)
(* Dice resolution and battle arbitration of DnDStyleBattleArena.          *)
(*                                                                         *)
(* A die is modelled by its `rolled` value (0 = never rolled); a list of   *)
(* dice of one kind is the sequence of their rolled values, in list order. *)
(* Every random draw (random.randint, random.choice, random.choices) is an *)
(* existentially chosen input of the action that makes the draw.           *)
(***************************************************************************)
EXTENDS Integers, Sequences, FiniteSets, TLC

\* ------------------------------------------------------------------ bounds
\* faces of the die kind used by the modelled pool and attacks
DieFaces == 2
\* faces given to the fighters' d20 in the model
D20Faces == 2
\* largest initial count of a Dice pool
MaxCount == 2
\* largest initial hit points of a fighter
MaxHP == 2
\* most snapshots a roll_history is let grow to
MaxHistory == 3
MaxInt == 2

\* ------------------------------------------------------------- the objects
Fighters == {1, 2}
\* two Attack objects, as built by the Attack subclasses: attack 1 owns one
\* die (EldritchBlast), attack 2 owns several (here two)
AttackObjects == {1, 2}
AttackDiceCount(a) == a
FighterAwareness == {"FOCUSED", "PRESENT", "DISTRACTED"}
\* the value a Python function returns when it falls off its end
None == "None"

VARIABLES
    battle_in_progress, \* BattleMediator._battle_in_progress
    pc,                 \* position of the start_battle / battle call
    attacker,           \* local `attacker` of battle() (0 before initiative)
    defender,           \* local `defender` of battle()
    hp,                 \* Fighter.hp of both fighters
    awareness,          \* Fighter._awareness
    attacks,            \* Fighter.attacks, a list of Attack objects
    d20,                \* value last returned by Fighter.roll_d20
    atk_dice,           \* Attack.dice of every Attack object
    chosen,             \* parameter `attack` of the last BattleMediator.attack
    cast,               \* Fighter method called for damage in the last turn
    damage,             \* local `damage` of the last BattleMediator.attack
    dice,               \* Dice.dice of the pool (RollManager._dice_list)
    roll_history,       \* Dice.roll_history
    count,              \* Dice.count
    op,                 \* last roll operation completed outside a battle
    target,             \* what it rolled: an Attack object, 0 for the pool
    rolled_values,      \* values rolled by that operation, in roll order
    roll_total,         \* value that operation returned
    raised,             \* exception that operation raised ("none": it returned)
    caller,             \* fighter whose method was called (0: no fighter)
    die_a,              \* a Die object: its class and its `rolled`
    die_b,              \* a second Die object
    expr,               \* last expression evaluated on dice, with its result
    weights,            \* Fighter._focused/_present/_distracted_chance, tenths
    drawn,              \* local `new_awareness` of the last update_awareness
                        \* called on a fighter directly
    notice,             \* what that call printed ("None": nothing)
    arena               \* two battles run side by side: for each, the position
                        \* of its start_battle call, the locals of battle()
                        \* and the hp and _awareness of its two fighters

battleVars == <<battle_in_progress, pc, attacker, defender, hp, awareness,
                attacks, d20, chosen, cast, damage>>
poolVars == <<dice, roll_history, count>>
rollVars == <<op, target, rolled_values, roll_total, raised, caller>>
dieVars == <<die_a, die_b, expr>>
awareVars == <<weights, drawn, notice>>
vars == <<battle_in_progress, pc, attacker, defender, hp, awareness, attacks,
          d20, atk_dice, chosen, cast, damage, dice, roll_history, count,
          op, target, rolled_values, roll_total, raised, caller,
          die_a, die_b, expr, weights, drawn, notice, arena>>

\* ------------------------------------------------------- list primitives
RECURSIVE sum(_)
\* Python sum() of a list of integers
sum(s) == IF s = <<>> THEN 0 ELSE Head(s) + sum(Tail(s))

\* Python min() of a non-empty list
min(s) == CHOOSE v \in {s[i] : i \in DOMAIN s} : \A j \in DOMAIN s : v <= s[j]

\* Python max() of a non-empty list
max(s) == CHOOSE v \in {s[i] : i \in DOMAIN s} : \A j \in DOMAIN s : v >= s[j]

\* index of the first element equal to v
index(s, v) == CHOOSE i \in DOMAIN s : s[i] = v /\ \A j \in 1..(i - 1) : s[j] # v

\* Python list.remove(v): drops the first element equal to v
remove(s, v) ==
    LET i == index(s, v)
    IN  [j \in 1..(Len(s) - 1) |-> IF j < i THEN s[j] ELSE s[j + 1]]

\* Python `v in list`
contains(s, v) == \E i \in DOMAIN s : s[i] = v

\* n unrolled dice
Unrolled(n) == [i \in 1..n |-> 0]

\* all outcomes of rolling n dice of the modelled kind
Outcomes(n) == [1..n -> 1..DieFaces]

\* ------------------------------------------------------------ RollManager
\* RollManager.add_die_to_roll: one more unrolled die of the same kind
add_die_to_roll(l) == Append(l, 0)

\* RollManager.roll_dice: every die of the list is rolled, in list order
roll_dice(l, rolls) == [i \in DOMAIN l |-> rolls[i]]

\* mutant: drops the highest die instead of the lowest
remove_lowest_roll_highest(l) == remove(l, max(l))

\* RollManager.remove_lowest_roll: min(key=rolled) is the first lowest die,
\* list.remove drops the first die equal to it (dice compare by `rolled`)
remove_lowest_roll(l) == remove(l, min(l))

\* mutant: drops every die that shows the highest value
remove_highest_roll_all(l) == SelectSeq(l, LAMBDA r : r # max(l))

\* RollManager.remove_highest_roll
remove_highest_roll(l) == remove(l, max(l))

\* RollManager.get_roll_total
get_roll_total(l) == sum(l)

\* RollManager.roll: the list after the call and the returned total
roll(l, rolls) ==
    LET r == roll_dice(l, rolls)
    IN  [dice |-> r, total |-> get_roll_total(r)]

\* RollManager.roll_with_advantage
roll_with_advantage(l, rolls) ==
    LET r == remove_lowest_roll(roll_dice(add_die_to_roll(l), rolls))
    IN  [dice |-> r, total |-> get_roll_total(r)]

\* RollManager.roll_with_disadvantage
roll_with_disadvantage(l, rolls) ==
    LET r == remove_highest_roll(roll_dice(add_die_to_roll(l), rolls))
    IN  [dice |-> r, total |-> get_roll_total(r)]

\* ------------------------------------------------------------------ Attack
\* mutant: the extra die is appended to self.dice itself
dice_with_extra_die_append(d) == [self_dice |-> d \o <<0>>, ret |-> d \o <<0>>]

\* Attack.dice_with_extra_die: `self.dice + [die_type()]` builds a new list
\* (ret) holding the attack's own dice and one more; self.dice is untouched
dice_with_extra_die(d) == [self_dice |-> d, ret |-> d \o <<0>>]

\* Attack.check_advantage: rolls.remove(min(rolls))
check_advantage(rolls) == remove(rolls, min(rolls))

\* mutant: drops every roll equal to the maximum
check_disadvantage_all(rolls) == SelectSeq(rolls, LAMBDA r : r # max(rolls))

\* Attack.check_disadvantage: rolls.remove(max(rolls))
check_disadvantage(rolls) == remove(rolls, max(rolls))

\* Attack.roll_damage: self.dice after the call and the returned total
roll_damage(d, rolls) ==
    LET results == [i \in DOMAIN d |-> rolls[i]]
    IN  [dice |-> results, total |-> sum(results)]

\* Attack.roll_damage_with_advantage: the dice of self.dice are the first
\* dice of the extended list, so they keep the values rolled here
roll_damage_with_advantage(d, rolls) ==
    LET e == dice_with_extra_die(d)
        rolled == [i \in DOMAIN e.ret |-> rolls[i]]
        results == check_advantage(rolled)
    IN  [dice |-> SubSeq(rolled, 1, Len(e.self_dice)), total |-> sum(results)]

\* Attack.roll_damage_with_disadvantage
roll_damage_with_disadvantage(d, rolls) ==
    LET e == dice_with_extra_die(d)
        rolled == [i \in DOMAIN e.ret |-> rolls[i]]
        results == check_disadvantage(rolled)
    IN  [dice |-> SubSeq(rolled, 1, Len(e.self_dice)), total |-> sum(results)]

\* ----------------------------------------------------------------- Fighter
\* Fighter.attack: falls off its end (None) for an attack never learned
fighter_attack(f, a, rolls) ==
    IF contains(attacks[f], a)
    THEN roll_damage(atk_dice[a], rolls)
    ELSE [dice |-> atk_dice[a], total |-> None]

\* Fighter.attack_with_advantage
attack_with_advantage(f, a, rolls) ==
    IF contains(attacks[f], a)
    THEN roll_damage_with_advantage(atk_dice[a], rolls)
    ELSE [dice |-> atk_dice[a], total |-> None]

\* Fighter.attack_with_disadvantage
attack_with_disadvantage(f, a, rolls) ==
    IF contains(attacks[f], a)
    THEN roll_damage_with_disadvantage(atk_dice[a], rolls)
    ELSE [dice |-> atk_dice[a], total |-> None]

\* mutant: the attack is appended whether or not it is in the list
learn_attack_append(l, a) == Append(l, a)

\* Fighter.learn_attack: appended only when not yet in the list
learn_attack(l, a) == IF ~contains(l, a) THEN Append(l, a) ELSE l

\* random.randrange(a, b)
randrange(a, b) == a..(b - 1)

\* the three chances Fighter.__init__ computes from its two draws, in
\* tenths: _present_chance = 1.0 - (_distracted_chance + _focused_chance)
fighter_weights(distracted, focused) ==
    [focused |-> focused, present |-> 10 - (distracted + focused),
     distracted |-> distracted]

\* every triple of chances a fighter can be built with
FighterWeights ==
    {fighter_weights(dc, fc) : dc \in randrange(1, 4), fc \in randrange(1, 4)}

\* Fighter.update_awareness: `weights`, in the order of list(FighterAwareness)
weight_of(w, s) ==
    CASE s = "FOCUSED" -> w.focused
      [] s = "PRESENT" -> w.present
      [] OTHER -> w.distracted

\* random.choices(list(FighterAwareness), weights=weights, k=1)[0]: a state
\* of positive weight
choices(w) == {s \in FighterAwareness : weight_of(w, s) > 0}

\* mutant: the drawn state is dropped
update_awareness_stay(current_awareness, new_awareness) == current_awareness

\* Fighter.update_awareness: the awareness after drawing `new_awareness`
update_awareness(current_awareness, new_awareness) ==
    IF new_awareness # current_awareness THEN new_awareness
    ELSE current_awareness

\* Fighter.update_awareness: the "... became ..." line it prints, if any
awareness_notice(current_awareness, new_awareness) ==
    IF new_awareness # current_awareness THEN new_awareness ELSE None

\* ---------------------------------------------------------- BattleMediator
\* mutant: the lower roll attacks first
roll_initiative_lower(fighter1, fighter2, r1, r2) ==
    IF r1 < r2 THEN <<fighter1, fighter2>> ELSE <<fighter2, fighter1>>

\* mutant: a tie goes to the first fighter
roll_initiative_tie_first(fighter1, fighter2, r1, r2) ==
    IF r1 >= r2 THEN <<fighter1, fighter2>> ELSE <<fighter2, fighter1>>

\* BattleMediator.roll_initiative, given the two d20 rolls
roll_initiative(fighter1, fighter2, r1, r2) ==
    IF r1 > r2 THEN <<fighter1, fighter2>> ELSE <<fighter2, fighter1>>

\* mutant: the FOCUSED and DISTRACTED cases are exchanged
damage_cast_exchanged(aw) ==
    CASE aw = "FOCUSED" -> "attack_with_disadvantage"
      [] aw = "DISTRACTED" -> "attack_with_advantage"
      [] OTHER -> "attack"

\* the match statement of BattleMediator.attack: which Fighter method rolls
\* the damage
damage_cast(aw) ==
    CASE aw = "FOCUSED" -> "attack_with_advantage"
      [] aw = "DISTRACTED" -> "attack_with_disadvantage"
      [] OTHER -> "attack"

\* number of dice the selected method rolls for attack a
dice_rolled(c, a) ==
    IF c = "attack" THEN Len(atk_dice[a]) ELSE Len(atk_dice[a]) + 1

\* result of the selected Fighter method
cast_result(c, f, a, rolls) ==
    CASE c = "attack_with_advantage" -> attack_with_advantage(f, a, rolls)
      [] c = "attack_with_disadvantage" -> attack_with_disadvantage(f, a, rolls)
      [] OTHER -> fighter_attack(f, a, rolls)

\* mutant: a tie counts as a hit
hits_or_ties(attack_roll, defense_roll) == attack_roll >= defense_roll

\* BattleMediator.attack: `if attack_roll > defense_roll`
hits(attack_roll, defense_roll) == attack_roll > defense_roll

\* mutant: a hit leaves the defender's hit points as they are
apply_damage_none(h, dmg) == h

\* mutant: the damage is added to the defender's hit points
apply_damage_heal(h, dmg) == h + dmg

\* mutant: `defender.hp =- damage`, the hit points are overwritten
apply_damage_overwrite(h, dmg) == 0 - dmg

\* BattleMediator.attack: `defender.hp -= damage`
apply_damage(h, dmg) == h - dmg

\* mutant: a fighter at exactly 0 hit points fights on
defeated_below_zero(h) == h < 0

\* BattleMediator.attack: `if defender.hp <= 0`
defeated(h) == h <= 0

\* mutant: the roles are not exchanged
swap_not(a, d) == <<a, d>>

\* BattleMediator.battle: `attacker, defender = defender, attacker`
swap(a, d) == <<d, a>>

\* BattleMediator.end_battle, as the flag it leaves
end_battle == FALSE

\* --------------------------------------------------------------------- Die
\* the Die subclasses used here, with the face_count each one declares
DieClasses == {"FourSidedDie", "SixSidedDie"}
default_face_count(cls) == IF cls = "FourSidedDie" THEN 4 ELSE 6

\* die_type(): a die of class cls, never rolled
new_die(cls) ==
    [kind |-> "die", cls |-> cls, face_count |-> default_face_count(cls),
     rolled |-> 0]

\* an int operand of an expression
int(n) == [kind |-> "int", value |-> n]

\* an expression either returns a value or raises
returns(v) == [raised |-> "none", value |-> v]
raises(e) == [raised |-> e, value |-> 0]

\* `other == 0`: a die never equals the int 0 (dataclass __eq__ gives
\* NotImplemented for another class, Python falls back to identity)
equals_zero(other) == other.kind = "int" /\ other.value = 0

\* mutant: any die passes the class test
isinstance_of_any_die(other, self) == other.kind = "die"

\* isinstance(other, self.__class__)
isinstance_of(other, self) == other.kind = "die" /\ other.cls = self.cls

\* isinstance(other, int)
isinstance_int(other) == other.kind = "int"

\* Python floor division, for a non-zero divisor
floordiv(x, y) == IF y > 0 THEN x \div y ELSE (0 - x) \div (0 - y)

\* Die.__add__
die_add(self, other) ==
    IF equals_zero(other) THEN returns(self.rolled)
    ELSE IF isinstance_of(other, self) THEN returns(self.rolled + other.rolled)
    ELSE IF isinstance_int(other) THEN returns(self.rolled + other.value)
    ELSE raises("ValueError")

\* Die.__radd__
die_radd(self, other) == die_add(self, other)

\* Die.__sub__
die_sub(self, other) ==
    IF equals_zero(other) THEN returns(self.rolled)
    ELSE IF isinstance_of(other, self) THEN returns(self.rolled - other.rolled)
    ELSE IF isinstance_int(other) THEN returns(self.rolled - other.value)
    ELSE raises("ValueError")

\* Die.__rsub__
die_rsub(self, other) ==
    IF equals_zero(other) THEN returns(self.rolled)
    ELSE IF isinstance_of(other, self) THEN returns(other.rolled - self.rolled)
    ELSE IF isinstance_int(other) THEN returns(other.value - self.rolled)
    ELSE raises("ValueError")

\* Die.__mul__
die_mul(self, other) ==
    IF equals_zero(other) THEN returns(0)
    ELSE IF isinstance_of(other, self) THEN returns(self.rolled * other.rolled)
    ELSE IF isinstance_int(other) THEN returns(self.rolled * other.value)
    ELSE raises("ValueError")

\* Die.__rmul__
die_rmul(self, other) == die_mul(self, other)

\* Die.__truediv__; `//` by a die that was never rolled raises Python's own
\* ZeroDivisionError
die_truediv(self, other) ==
    IF equals_zero(other) THEN raises("ZeroDivisionError")
    ELSE IF isinstance_of(other, self)
         THEN IF other.rolled = 0 THEN raises("ZeroDivisionError")
              ELSE returns(floordiv(self.rolled, other.rolled))
    ELSE IF isinstance_int(other) THEN returns(floordiv(self.rolled, other.value))
    ELSE raises("ValueError")

\* Die.__rtruediv__
die_rtruediv(self, other) ==
    IF self.rolled = 0 THEN raises("ZeroDivisionError")
    ELSE IF isinstance_of(other, self)
         THEN returns(floordiv(other.rolled, self.rolled))
    ELSE IF isinstance_int(other) THEN returns(floordiv(other.value, self.rolled))
    ELSE raises("ValueError")

\* `left <operator> right` with at least one die: the left operand's method
\* when it is a die (it never returns NotImplemented), otherwise the
\* reflected method of the right operand
binary(operator, left, right) ==
    IF left.kind = "die"
    THEN CASE operator = "+" -> die_add(left, right)
           [] operator = "-" -> die_sub(left, right)
           [] operator = "*" -> die_mul(left, right)
           [] OTHER -> die_truediv(left, right)
    ELSE CASE operator = "+" -> die_radd(right, left)
           [] operator = "-" -> die_rsub(right, left)
           [] operator = "*" -> die_rmul(right, left)
           [] OTHER -> die_rtruediv(right, left)

\* the tuple the generated comparison methods of a Die subclass compare:
\* the subclass redeclares face_count without compare=False, `name` stays
\* excluded
compare_key(d) == <<d.face_count, d.rolled>>

\* tuple order on two such keys
key_less(k1, k2) == k1[1] < k2[1] \/ (k1[1] = k2[1] /\ k1[2] < k2[2])

\* `a == b` on two distinct Die objects: the generated __eq__ answers only
\* for its own class, otherwise Python compares identities
die_eq(a, b) ==
    IF b.cls = a.cls THEN returns(compare_key(a) = compare_key(b))
    ELSE returns(FALSE)

\* `a < b`: the generated __lt__ answers only for its own class, otherwise
\* Python raises TypeError
die_lt(a, b) ==
    IF b.cls = a.cls THEN returns(key_less(compare_key(a), compare_key(b)))
    ELSE [raised |-> "TypeError", value |-> FALSE]

\* mutant: a roll can leave the die on 0
roll_range_with_zero(face_count) == 0..face_count

\* Die.roll: the values random.randint(1, face_count) can return
roll_range(face_count) == 1..face_count

\* Die.roll with outcome v: `rolled` is overwritten and then returned
die_roll(d, v) ==
    LET rolled_die == [d EXCEPT !.rolled = v]
    IN  [die |-> rolled_die, ret |-> rolled_die.rolled]

\* no expression evaluated yet
NoExpr == [operator |-> "none", left |-> int(0), right |-> int(0),
           result |-> returns(0)]

\* two dice as their constructors leave them
InitDie ==
    /\ die_a = new_die("FourSidedDie")
    /\ die_b = new_die("FourSidedDie")
    /\ expr = NoExpr

\* -------------------------------------------------------------------- Dice
\* a die of the pool with the given `rolled`
pool_die(r) == [new_die("SixSidedDie") EXCEPT !.rolled = r]

RECURSIVE sum_from(_, _)
\* Python sum() over a list of Die objects: start + d1 + d2 + ..., each step
\* through Die.__radd__
sum_from(start, l) ==
    IF l = <<>> THEN start
    ELSE sum_from(die_radd(pool_die(Head(l)), int(start)).value, Tail(l))

\* copy.deepcopy(self.dice): a snapshot holds its own dice
deepcopy(d) == d

\* mutant: the roll overwrites the last snapshot
append_snapshot_overwrite(h, d) == [h EXCEPT ![Len(h)] = deepcopy(d)]

\* Dice.roll: `self.roll_history.append(copy.deepcopy(self.dice))`
append_snapshot(h, d) == Append(h, deepcopy(d))

\* Dice.current_roll
current_roll(h) == h[Len(h)]

\* mutant: previous_roll hands out the last snapshot
previous_roll_last(h) ==
    IF Len(h) > 1 THEN [raised |-> "none", value |-> h[Len(h)]]
    ELSE [raised |-> "IndexError", value |-> <<>>]

\* Dice.previous_roll
previous_roll(h) ==
    IF Len(h) > 1 THEN [raised |-> "none", value |-> h[Len(h) - 1]]
    ELSE [raised |-> "IndexError", value |-> <<>>]

\* Dice.current_total
current_total(h) == sum_from(0, current_roll(h))

\* Dice.previous_total
previous_total(h) ==
    LET p == previous_roll(h)
    IN  IF p.raised = "none" THEN returns(sum_from(0, p.value))
        ELSE raises(p.raised)

\* ----------------------------------------------------------- initial state
\* the pool, the roll record and the attacks before anything is rolled
InitPool(k) ==
    /\ count = k
    /\ dice = Unrolled(k)
    /\ roll_history = <<Unrolled(k)>>

InitRollRecord ==
    /\ op = "none"
    /\ target = 0
    /\ rolled_values = <<>>
    /\ roll_total = 0
    /\ raised = "none"
    /\ caller = 0

\* no update_awareness call made on a fighter directly: nothing drawn or
\* printed; both fighters drew the lowest chances in Fighter.__init__
InitNotice ==
    /\ weights = [f \in Fighters |-> fighter_weights(1, 1)]
    /\ drawn = None
    /\ notice = None

\* the two battles run side by side
Battles == {1, 2}

\* the two battles before either start_battle call: four fighters as
\* Fighter.__init__ leaves them, no attacker or defender chosen
InitArena ==
    arena = [b \in Battles |->
               [pc |-> "idle", attacker |-> 0, defender |-> 0,
                hp |-> [f \in Fighters |-> MaxHP],
                awareness |-> [f \in Fighters |-> "PRESENT"]]]

InitAttackObjects == atk_dice = [a \in AttackObjects |-> Unrolled(AttackDiceCount(a))]

\* the list a fighter holds after Main.py's training loop
Trained == learn_attack(learn_attack(<<>>, 1), 2)

\* Fighter.__init__ for both fighters, BattleMediator's class attributes;
\* both fighters are built with the same hit points (Main.py), and a fighter
\* enters either untrained or trained with every attack
InitBattle ==
    /\ battle_in_progress = FALSE
    /\ pc = "idle"
    /\ attacker = 0
    /\ defender = 0
    /\ \E h \in 1..MaxHP : hp = [f \in Fighters |-> h]
    /\ awareness = [f \in Fighters |-> "PRESENT"]
    /\ attacks \in [Fighters -> {<<>>, Trained}]
    /\ d20 = [f \in Fighters |-> 0]
    /\ chosen = 0
    /\ cast = "none"
    /\ damage = 0

Init ==
    /\ InitBattle
    /\ InitAttackObjects
    /\ InitPool(1)
    /\ InitRollRecord
    /\ InitArena
    /\ InitNotice
    /\ InitDie

\* ------------------------------------------------------ the battle actions
\* BattleMediator.start_battle up to the head of the loop of battle():
\* the flag is set, then roll_initiative rolls both d20
StartBattle ==
    /\ pc = "idle"
    /\ \E r1, r2 \in 1..D20Faces :
         LET order == roll_initiative(1, 2, r1, r2)
         IN  /\ d20' = [d20 EXCEPT ![1] = r1, ![2] = r2]
             /\ attacker' = order[1]
             /\ defender' = order[2]
    /\ battle_in_progress' = TRUE
    /\ pc' = "update"
    /\ UNCHANGED <<hp, awareness, attacks, atk_dice, chosen, cast, damage>>
    /\ UNCHANGED <<poolVars, rollVars, dieVars, awareVars, arena>>

\* loop test passed: attacker.update_awareness()
UpdateAwareness ==
    /\ pc = "update"
    /\ battle_in_progress
    /\ \E new_awareness \in FighterAwareness :
         awareness' = [awareness EXCEPT
                          ![attacker] = update_awareness(@, new_awareness)]
    /\ pc' = "attack"
    /\ UNCHANGED <<battle_in_progress, attacker, defender, hp, attacks, d20,
                   atk_dice, chosen, cast, damage>>
    /\ UNCHANGED <<poolVars, rollVars, dieVars, awareVars, arena>>

\* random.choice(attacker.attacks) raises IndexError on an empty list; the
\* exception leaves battle() and start_battle()
ChoiceFails ==
    /\ pc = "attack"
    /\ attacks[attacker] = <<>>
    /\ pc' = "error"
    /\ UNCHANGED <<battle_in_progress, attacker, defender, hp, awareness,
                   attacks, d20, atk_dice, chosen, cast, damage>>
    /\ UNCHANGED <<poolVars, rollVars, dieVars, awareVars, arena>>

\* rest of the loop body: random.choice, BattleMediator.attack, the status
\* print and the swap of attacker and defender
Attack ==
    /\ pc = "attack"
    /\ attacks[attacker] # <<>>
    /\ \E i \in DOMAIN attacks[attacker], attack_roll, defense_roll \in 1..D20Faces :
         LET a == attacks[attacker][i]
             c == damage_cast(awareness[attacker])
         IN  /\ chosen' = a
             /\ d20' = [d20 EXCEPT ![attacker] = attack_roll,
                                   ![defender] = defense_roll]
             /\ IF hits(attack_roll, defense_roll)
                THEN \E rolls \in Outcomes(dice_rolled(c, a)) :
                       LET res == cast_result(c, attacker, a, rolls)
                       IN  /\ cast' = c
                           /\ damage' = res.total
                           /\ atk_dice' = [atk_dice EXCEPT ![a] = res.dice]
                           /\ hp' = [hp EXCEPT ![defender] = apply_damage(@, res.total)]
                ELSE /\ cast' = "none"
                     /\ damage' = 0
                     /\ UNCHANGED <<atk_dice, hp>>
    /\ battle_in_progress' =
         IF defeated(hp'[defender]) THEN end_battle ELSE battle_in_progress
    /\ attacker' = swap(attacker, defender)[1]
    /\ defender' = swap(attacker, defender)[2]
    /\ pc' = "update"
    /\ UNCHANGED <<awareness, attacks>>
    /\ UNCHANGED <<poolVars, rollVars, dieVars, awareVars, arena>>

\* loop test failed: battle() and start_battle() return
BattleReturn ==
    /\ pc = "update"
    /\ ~battle_in_progress
    /\ pc' = "done"
    /\ UNCHANGED <<battle_in_progress, attacker, defender, hp, awareness,
                   attacks, d20, atk_dice, chosen, cast, damage>>
    /\ UNCHANGED <<poolVars, rollVars, dieVars, awareVars, arena>>

Next ==
    \/ StartBattle
    \/ UpdateAwareness
    \/ ChoiceFails
    \/ Attack
    \/ BattleReturn

Spec == Init /\ [][Next]_vars

\* --------------------------------------- rolls made outside of a battle
\* a Dice pool of 1..MaxCount dice, the two Attack objects, nothing rolled
InitRoll ==
    /\ InitBattle
    /\ hp = [f \in Fighters |-> MaxHP]
    /\ attacks = [f \in Fighters |-> Trained]
    /\ InitAttackObjects
    /\ \E k \in 1..MaxCount : InitPool(k)
    /\ InitRollRecord
    /\ InitArena
    /\ InitNotice
    /\ InitDie

\* RollManager(pool).roll(); the manager's list is the pool's own list
ManagerRoll ==
    /\ dice # <<>>
    /\ \E rolls \in Outcomes(Len(dice)) :
         LET res == roll(dice, rolls)
         IN  /\ dice' = res.dice
             /\ roll_total' = res.total
             /\ rolled_values' = rolls
    /\ op' = "roll"
    /\ target' = 0
    /\ raised' = "none"
    /\ caller' = 0
    /\ UNCHANGED <<battleVars, atk_dice, roll_history, count, dieVars, awareVars, arena>>

\* RollManager(pool).roll_with_advantage()
ManagerRollWithAdvantage ==
    /\ dice # <<>>
    /\ \E rolls \in Outcomes(Len(dice) + 1) :
         LET res == roll_with_advantage(dice, rolls)
         IN  /\ dice' = res.dice
             /\ roll_total' = res.total
             /\ rolled_values' = rolls
    /\ op' = "roll_with_advantage"
    /\ target' = 0
    /\ raised' = "none"
    /\ caller' = 0
    /\ UNCHANGED <<battleVars, atk_dice, roll_history, count, dieVars, awareVars, arena>>

\* RollManager(pool).roll_with_disadvantage()
ManagerRollWithDisadvantage ==
    /\ dice # <<>>
    /\ \E rolls \in Outcomes(Len(dice) + 1) :
         LET res == roll_with_disadvantage(dice, rolls)
         IN  /\ dice' = res.dice
             /\ roll_total' = res.total
             /\ rolled_values' = rolls
    /\ op' = "roll_with_disadvantage"
    /\ target' = 0
    /\ raised' = "none"
    /\ caller' = 0
    /\ UNCHANGED <<battleVars, atk_dice, roll_history, count, dieVars, awareVars, arena>>

\* attack.roll_damage()
AttackRollDamage ==
    /\ \E a \in AttackObjects : \E rolls \in Outcomes(Len(atk_dice[a])) :
         LET res == roll_damage(atk_dice[a], rolls)
         IN  /\ atk_dice' = [atk_dice EXCEPT ![a] = res.dice]
             /\ roll_total' = res.total
             /\ rolled_values' = rolls
             /\ target' = a
    /\ op' = "roll_damage"
    /\ raised' = "none"
    /\ caller' = 0
    /\ UNCHANGED <<battleVars, poolVars, dieVars, awareVars, arena>>

\* attack.roll_damage_with_advantage()
AttackRollDamageWithAdvantage ==
    /\ \E a \in AttackObjects : \E rolls \in Outcomes(Len(atk_dice[a]) + 1) :
         LET res == roll_damage_with_advantage(atk_dice[a], rolls)
         IN  /\ atk_dice' = [atk_dice EXCEPT ![a] = res.dice]
             /\ roll_total' = res.total
             /\ rolled_values' = rolls
             /\ target' = a
    /\ op' = "roll_damage_with_advantage"
    /\ raised' = "none"
    /\ caller' = 0
    /\ UNCHANGED <<battleVars, poolVars, dieVars, awareVars, arena>>

\* attack.roll_damage_with_disadvantage()
AttackRollDamageWithDisadvantage ==
    /\ \E a \in AttackObjects : \E rolls \in Outcomes(Len(atk_dice[a]) + 1) :
         LET res == roll_damage_with_disadvantage(atk_dice[a], rolls)
         IN  /\ atk_dice' = [atk_dice EXCEPT ![a] = res.dice]
             /\ roll_total' = res.total
             /\ rolled_values' = rolls
             /\ target' = a
    /\ op' = "roll_damage_with_disadvantage"
    /\ raised' = "none"
    /\ caller' = 0
    /\ UNCHANGED <<battleVars, poolVars, dieVars, awareVars, arena>>

NextRoll ==
    \/ ManagerRoll
    \/ ManagerRollWithAdvantage
    \/ ManagerRollWithDisadvantage
    \/ AttackRollDamage
    \/ AttackRollDamageWithAdvantage
    \/ AttackRollDamageWithDisadvantage

SpecRoll == InitRoll /\ [][NextRoll]_vars

\* number of dice the target of the last roll operation was built with
BuiltCount == IF target = 0 THEN count ELSE AttackDiceCount(target)

\* ------------------------------------------------------------------ claims
\* C1: a roll with advantage (RollManager.roll_with_advantage on a pool of k
\* dice, Attack.roll_damage_with_advantage on an attack of k dice) rolls k+1
\* dice and returns their sum minus the minimum of the k+1 values.
C1_AdvantageTotal ==
    op \in {"roll_with_advantage", "roll_damage_with_advantage"} =>
        /\ Len(rolled_values) = BuiltCount + 1
        /\ roll_total = sum(rolled_values) - min(rolled_values)

\* C1 witness: an advantage roll of a pool has rolled three dice whose
\* values are not all equal
C1_Witness ==
    /\ op = "roll_with_advantage"
    /\ Len(rolled_values) = 3
    /\ min(rolled_values) < max(rolled_values)

\* C2: a roll with disadvantage rolls k+1 dice and returns their sum minus
\* the maximum of the k+1 values.
C2_DisadvantageTotal ==
    op \in {"roll_with_disadvantage", "roll_damage_with_disadvantage"} =>
        /\ Len(rolled_values) = BuiltCount + 1
        /\ roll_total = sum(rolled_values) - max(rolled_values)

\* C2 witness: a disadvantage cast of the larger attack with unequal values
C2_Witness ==
    /\ op = "roll_damage_with_disadvantage"
    /\ target = 2
    /\ min(rolled_values) < max(rolled_values)

\* C3: after every completed plain, advantage or disadvantage roll the pool
\* and every attack hold as many dice as they were built with.
C3_PoolDoesNotGrow ==
    /\ Len(dice) = count
    /\ \A a \in AttackObjects : Len(atk_dice[a]) = AttackDiceCount(a)

\* C3 witness: an advantage or disadvantage roll has completed on a pool and
\* on an attack that had both been rolled before
C3_Witness ==
    /\ op \in {"roll_with_advantage", "roll_damage_with_disadvantage"}
    /\ \A i \in DOMAIN dice : dice[i] > 0
    /\ \A i \in DOMAIN atk_dice[2] : atk_dice[2][i] > 0
    /\ Len(dice) = count

\* a step that plays the attack of a turn (BattleMediator.attack returned)
TurnPlayed == pc = "attack" /\ pc' = "update"

\* a step that runs the attacker's update_awareness
AwarenessUpdated == pc = "update" /\ pc' = "attack"

\* the step of start_battle that rolls initiative
InitiativeRolled == pc = "idle" /\ pc' = "update"

\* C4: in every turn the attacker hits iff its d20 roll is strictly greater
\* than the defender's; on equal or lower rolls no damage is rolled and the
\* defender's hit points do not change.
C4_HitIffStrictlyGreater ==
    [][TurnPlayed =>
        /\ (cast' # "none") <=> (d20'[attacker] > d20'[defender])
        /\ d20'[attacker] <= d20'[defender] =>
             /\ hp'[defender] = hp[defender]
             /\ atk_dice' = atk_dice
             /\ damage' = 0]_vars

\* C4 witness: a turn with equal d20 rolls has been played as a miss
C4_Witness ==
    /\ pc = "update"
    /\ chosen # 0
    /\ d20[1] = d20[2]
    /\ cast = "none"

\* C5: update_awareness of the attacker is the step before the attack of the
\* turn and touches nothing but that fighter's awareness; attack selection,
\* d20 rolls and damage happen only in the attack step that follows, where a
\* hit is rolled with advantage when the attacker is FOCUSED, with
\* disadvantage when DISTRACTED and plainly when PRESENT.
C5_AwarenessSelectsDamageRoll ==
    [][/\ pc' = "attack" => AwarenessUpdated
       /\ AwarenessUpdated =>
            /\ UNCHANGED <<chosen, d20, hp, cast, damage, atk_dice>>
            /\ awareness'[defender] = awareness[defender]
       /\ (chosen' # chosen \/ d20' # d20 \/ hp' # hp) =>
            (TurnPlayed \/ InitiativeRolled)
       /\ (TurnPlayed /\ cast' # "none") =>
            /\ awareness[attacker] = "FOCUSED" => cast' = "attack_with_advantage"
            /\ awareness[attacker] = "DISTRACTED" => cast' = "attack_with_disadvantage"
            /\ awareness[attacker] = "PRESENT" => cast' = "attack"]_vars

\* C5 witness: a fighter that became FOCUSED in its turn has hit and rolled
\* the damage with advantage
C5_Witness ==
    /\ pc = "update"
    /\ cast = "attack_with_advantage"
    /\ awareness[defender] = "FOCUSED"

\* C6: on a hit the defender loses exactly the damage the attack roll
\* returned (for a plain roll, the sum of the attack's dice); no step of a
\* turn changes the attacker's hit points, the defender's awareness or the
\* learned attacks of either fighter.
C6_DamageAppliedToDefenderOnly ==
    [][/\ (TurnPlayed /\ cast' # "none") =>
            /\ hp'[defender] = hp[defender] - damage'
            /\ cast' = "attack" => damage' = sum(atk_dice'[chosen'])
       /\ (TurnPlayed \/ AwarenessUpdated) =>
            /\ hp'[attacker] = hp[attacker]
            /\ awareness'[defender] = awareness[defender]
            /\ attacks' = attacks]_vars

\* C6 witness: a plain hit took hit points from a fighter that is still
\* standing
C6_Witness ==
    /\ pc = "update"
    /\ cast = "attack"
    /\ damage >= 1
    /\ hp[attacker] >= 1
    /\ hp[attacker] < MaxHP

\* C7: the flag is cleared by the attack step of exactly the turn that leaves
\* its defender at hp <= 0; once it is cleared the only step left is the
\* return of start_battle, which changes nothing else, and start_battle has
\* returned only with the flag false.
C7_BattleEndsOnDefeat ==
    [][/\ TurnPlayed => (battle_in_progress' <=> hp'[defender] > 0)
       /\ (battle_in_progress /\ ~battle_in_progress') =>
            (TurnPlayed /\ hp'[defender] <= 0)
       /\ (pc \in {"update", "attack"} /\ ~battle_in_progress) =>
            /\ pc' = "done"
            /\ UNCHANGED <<battle_in_progress, attacker, defender, hp,
                           awareness, attacks, d20, atk_dice, chosen, cast,
                           damage>>
       /\ pc' = "done" => ~battle_in_progress']_vars

\* C7 witness: start_battle has returned after the defender of the last turn
\* (the attacker of the turn that was never played) went to hp <= 0
C7_Witness ==
    /\ pc = "done"
    /\ ~battle_in_progress
    /\ hp[attacker] <= 0
    /\ hp[defender] > 0

\* C8: the attack step of every turn, hit or miss, hands the attacker role
\* to the defender and the defender role to the attacker; no other step of
\* the battle changes the roles, and the two roles are different fighters.
C8_TurnsAlternate ==
    [][/\ TurnPlayed =>
            /\ attacker' = defender
            /\ defender' = attacker
            /\ attacker' # attacker
       /\ (pc # "idle" /\ ~TurnPlayed) => UNCHANGED <<attacker, defender>>]_vars

\* C8 witness: both fighters have had a turn (each has left PRESENT in its
\* own update), the last one a miss, and the battle goes on
C8_Witness ==
    /\ pc = "attack"
    /\ battle_in_progress
    /\ cast = "none"
    /\ awareness[1] # "PRESENT"
    /\ awareness[2] # "PRESENT"

\* C9: when the two initiative rolls differ, the fighter with the higher
\* roll becomes the attacker and the other one the defender.
C9_HigherInitiativeAttacks ==
    [][(InitiativeRolled /\ d20'[1] # d20'[2]) =>
        /\ d20'[attacker'] > d20'[defender']
        /\ {attacker', defender'} = Fighters]_vars

\* C9 witness: the second fighter rolled higher and attacks first
C9_Witness ==
    /\ pc = "update"
    /\ chosen = 0
    /\ d20[2] > d20[1]
    /\ attacker = 2

\* C10 as stated: when the second fighter's initiative roll is higher than
\* or equal to the first fighter's, the second fighter is the defender.
C10_SecondIsDefender ==
    [][(InitiativeRolled /\ d20'[2] >= d20'[1]) => defender' = 2]_vars

\* C10 amended: when the second fighter's initiative roll is higher than or
\* equal to the first fighter's (a tie included), the second fighter is the
\* attacker and the first fighter the defender.
C10_SecondIsAttacker ==
    [][(InitiativeRolled /\ d20'[2] >= d20'[1]) =>
        /\ attacker' = 2
        /\ defender' = 1]_vars

\* C10 witness: the initiative rolls tied and the second fighter attacks
C10_Witness ==
    /\ pc = "update"
    /\ chosen = 0
    /\ d20[1] = d20[2]
    /\ d20[1] > 0
    /\ attacker = 2
    /\ defender = 1

\* C11 as stated: while a fighter has no learned attack, start_battle has
\* been refused before the battle started: the flag is false and no
\* initiative roll, awareness update, attack or hit-point change has happened.
C11_EmptyAttacksRejected ==
    (\E f \in Fighters : attacks[f] = <<>>) =>
        /\ ~battle_in_progress
        /\ pc = "idle"
        /\ d20 = [f \in Fighters |-> 0]
        /\ awareness = [f \in Fighters |-> "PRESENT"]
        /\ chosen = 0
        /\ hp[1] = hp[2]

\* C25: in a battle of two fighters with hit points > 0 and at least one
\* learned attack each, both fighters have hit points > 0 at the start of
\* every turn, hit points never increase, a hit lowers the defender's hit
\* points by at least 1, and when start_battle returns exactly one fighter
\* has hit points <= 0: the defender of the last turn (the attacker after
\* the swap).
C25_HitPointsOnlyFall ==
    /\ []((\A f \in Fighters : attacks[f] # <<>>) =>
            /\ (pc = "attack" \/ (pc = "update" /\ battle_in_progress)) =>
                 \A f \in Fighters : hp[f] > 0
            /\ pc = "done" => hp[attacker] <= 0 /\ hp[defender] > 0)
    /\ [][(\A f \in Fighters : attacks[f] # <<>>) =>
            /\ \A f \in Fighters : hp'[f] <= hp[f]
            /\ (TurnPlayed /\ hits(d20'[attacker], d20'[defender])) =>
                 hp'[defender] <= hp[defender] - 1
            /\ hp' # hp =>
                 TurnPlayed /\ hits(d20'[attacker], d20'[defender])]_vars

\* C25 witness: start_battle has returned after a last turn that was a hit;
\* the fighter hit stands below 0 and the other one still has 1 hit point
C25_Witness ==
    /\ pc = "done"
    /\ damage > 0
    /\ hp[attacker] < 0
    /\ hp[defender] = 1

\* ------------------------------------------- the battle under fairness
\* a turn of the loop whose attack roll beats the defense roll
Hit == Attack /\ hits(d20'[attacker], d20'[defender])

\* two fighters built with MaxHP hit points, each one either untrained or
\* taught the first attack
InitFair ==
    /\ battle_in_progress = FALSE
    /\ pc = "idle"
    /\ attacker = 0
    /\ defender = 0
    /\ hp = [f \in Fighters |-> MaxHP]
    /\ awareness = [f \in Fighters |-> "PRESENT"]
    /\ attacks \in [Fighters -> {<<>>, learn_attack(<<>>, 1)}]
    /\ d20 = [f \in Fighters |-> 0]
    /\ chosen = 0
    /\ cast = "none"
    /\ damage = 0
    /\ InitAttackObjects
    /\ InitPool(1)
    /\ InitRollRecord
    /\ InitArena
    /\ InitNotice
    /\ InitDie

\* the call keeps running while it can, and the dice do not avoid a hit
\* forever: every turn has a positive chance of one
SpecFair == InitFair /\ [][Next]_vars /\ WF_vars(Next) /\ SF_vars(Hit)

\* C26: for two fighters with at least one learned attack each, start_battle
\* terminates with the flag false, provided a hit is not avoided forever;
\* a miss leaves hit points and flag as they are, so a run of misses keeps
\* the loop going for as long as it lasts.
C26_BattleTerminates ==
    /\ (\A f \in Fighters : attacks[f] # <<>>)
          ~> (pc = "done" /\ ~battle_in_progress)
    /\ [][(TurnPlayed /\ ~hits(d20'[attacker], d20'[defender])) =>
             /\ hp' = hp
             /\ battle_in_progress' = battle_in_progress
             /\ battle_in_progress]_vars

\* C26 witness: start_battle has returned with the flag false after a battle
\* in which both fighters were hit
C26_Witness ==
    /\ pc = "done"
    /\ ~battle_in_progress
    /\ \A f \in Fighters : attacks[f] # <<>>
    /\ hp[attacker] <= 0
    /\ hp[defender] < MaxHP

\* ------------------------------------- Fighter methods called by a caller
\* two fighters as Fighter.__init__ leaves them, the two Attack objects
InitFighter ==
    /\ InitBattle
    /\ hp = [f \in Fighters |-> MaxHP]
    /\ attacks = [f \in Fighters |-> <<>>]
    /\ InitAttackObjects
    /\ InitPool(1)
    /\ InitRollRecord
    /\ InitArena
    /\ InitNotice
    /\ InitDie

\* fighter.learn_attack(attack)
LearnAttack ==
    /\ \E f \in Fighters, a \in AttackObjects :
         /\ attacks' = [attacks EXCEPT ![f] = learn_attack(attacks[f], a)]
         /\ caller' = f
         /\ target' = a
    /\ op' = "learn_attack"
    /\ rolled_values' = <<>>
    /\ roll_total' = None
    /\ raised' = "none"
    /\ UNCHANGED <<battle_in_progress, pc, attacker, defender, hp, awareness,
                   d20, chosen, cast, damage, atk_dice>>
    /\ UNCHANGED <<poolVars, dieVars, awareVars, arena>>

\* fighter.attack(attack), fighter.attack_with_advantage(attack) or
\* fighter.attack_with_disadvantage(attack); dice are rolled only inside
\* the `if attack in self.attacks` branch
FighterCall(c) ==
    /\ \E f \in Fighters, a \in AttackObjects :
         \E rolls \in IF contains(attacks[f], a) THEN Outcomes(dice_rolled(c, a))
                      ELSE {<<>>} :
            LET res == cast_result(c, f, a, rolls)
            IN  /\ atk_dice' = [atk_dice EXCEPT ![a] = res.dice]
                /\ roll_total' = res.total
                /\ rolled_values' = rolls
                /\ caller' = f
                /\ target' = a
    /\ op' = c
    /\ raised' = "none"
    /\ UNCHANGED <<battleVars, poolVars, dieVars, awareVars, arena>>

FighterAttack == FighterCall("attack")

FighterAttackWithAdvantage == FighterCall("attack_with_advantage")

FighterAttackWithDisadvantage == FighterCall("attack_with_disadvantage")

NextFighter ==
    \/ LearnAttack
    \/ FighterAttack
    \/ FighterAttackWithAdvantage
    \/ FighterAttackWithDisadvantage

SpecFighter == InitFighter /\ [][NextFighter]_vars

\* C12 as stated: a call of Fighter.attack, attack_with_advantage or
\* attack_with_disadvantage with an attack the fighter has not learned
\* raises UnknownAttack, returns no result and rolls no dice.
C12_UnknownAttackRaises ==
    (/\ op \in {"attack", "attack_with_advantage", "attack_with_disadvantage"}
     /\ ~contains(attacks[caller], target)) =>
        /\ raised = "UnknownAttack"
        /\ rolled_values = <<>>

\* ------------------------------------------- a Dice pool and its history
\* Dice(die_type, count) for a count of 0, 1 or 2 (__post_init__ accepts any
\* count: range(count) is empty below 1), nothing rolled
InitDice ==
    /\ InitBattle
    /\ hp = [f \in Fighters |-> MaxHP]
    /\ attacks = [f \in Fighters |-> Trained]
    /\ InitAttackObjects
    /\ \E k \in {0, 1, 2} : InitPool(k)
    /\ InitRollRecord
    /\ InitArena
    /\ InitNotice
    /\ InitDie

\* pool.roll(): every die is rolled, a snapshot is appended, current_roll is
\* returned
DiceRoll ==
    /\ Len(roll_history) < MaxHistory
    /\ \E rolls \in Outcomes(Len(dice)) :
         /\ dice' = roll_dice(dice, rolls)
         /\ roll_history' = append_snapshot(roll_history, dice')
         /\ rolled_values' = current_roll(roll_history')
    /\ op' = "Dice.roll"
    /\ target' = 0
    /\ roll_total' = 0
    /\ raised' = "none"
    /\ caller' = 0
    /\ UNCHANGED <<battleVars, atk_dice, count, dieVars, awareVars, arena>>

\* RollManager(pool).roll(), roll_with_advantage() or roll_with_disadvantage()
\* on a pool without dice: roll_dice raises ValueError, the two others fail
\* on `self._dice_list[0]` before anything else
ManagerRollOnEmpty ==
    /\ dice = <<>>
    /\ \E m \in {"roll", "roll_with_advantage", "roll_with_disadvantage"} :
         /\ op' = m
         /\ raised' = IF m = "roll" THEN "ValueError" ELSE "IndexError"
    /\ target' = 0
    /\ rolled_values' = <<>>
    /\ roll_total' = 0
    /\ caller' = 0
    /\ UNCHANGED <<battleVars, atk_dice, poolVars, dieVars, awareVars, arena>>

\* RollManager(pool).remove_lowest_roll()
RemoveLowestRoll ==
    /\ IF dice = <<>>
       THEN /\ raised' = "ValueError"
            /\ UNCHANGED dice
       ELSE /\ raised' = "none"
            /\ dice' = remove_lowest_roll(dice)
    /\ op' = "remove_lowest_roll"
    /\ target' = 0
    /\ rolled_values' = <<>>
    /\ roll_total' = 0
    /\ caller' = 0
    /\ UNCHANGED <<battleVars, atk_dice, roll_history, count, dieVars, awareVars, arena>>

\* RollManager(pool).remove_highest_roll()
RemoveHighestRoll ==
    /\ IF dice = <<>>
       THEN /\ raised' = "ValueError"
            /\ UNCHANGED dice
       ELSE /\ raised' = "none"
            /\ dice' = remove_highest_roll(dice)
    /\ op' = "remove_highest_roll"
    /\ target' = 0
    /\ rolled_values' = <<>>
    /\ roll_total' = 0
    /\ caller' = 0
    /\ UNCHANGED <<battleVars, atk_dice, roll_history, count, dieVars, awareVars, arena>>

\* pool.previous_roll
ReadPreviousRoll ==
    /\ LET p == previous_roll(roll_history)
       IN  /\ raised' = p.raised
           /\ rolled_values' = p.value
    /\ op' = "previous_roll"
    /\ target' = 0
    /\ roll_total' = 0
    /\ caller' = 0
    /\ UNCHANGED <<battleVars, atk_dice, poolVars, dieVars, awareVars, arena>>

\* pool.previous_total
ReadPreviousTotal ==
    /\ LET p == previous_total(roll_history)
       IN  /\ raised' = p.raised
           /\ roll_total' = p.value
    /\ op' = "previous_total"
    /\ target' = 0
    /\ rolled_values' = <<>>
    /\ caller' = 0
    /\ UNCHANGED <<battleVars, atk_dice, poolVars, dieVars, awareVars, arena>>

NextDice ==
    \/ DiceRoll
    \/ ManagerRoll
    \/ ManagerRollWithAdvantage
    \/ ManagerRollWithDisadvantage
    \/ ManagerRollOnEmpty
    \/ RemoveLowestRoll
    \/ RemoveHighestRoll
    \/ ReadPreviousRoll
    \/ ReadPreviousTotal

SpecDice == InitDice /\ [][NextDice]_vars

\* the list l without its i-th element
Without(l, i) == [j \in 1..(Len(l) - 1) |-> IF j < i THEN l[j] ELSE l[j + 1]]

\* C13: roll_history starts as one snapshot of the unrolled dice; Dice.roll
\* makes it exactly one longer; no operation shortens it or changes a
\* snapshot it already holds.
C13_HistoryAppendOnly ==
    /\ roll_history = <<Unrolled(count)>>
    /\ [][/\ Len(roll_history') >= Len(roll_history)
          /\ SubSeq(roll_history', 1, Len(roll_history)) = roll_history
          /\ op' = "Dice.roll" => Len(roll_history') = Len(roll_history) + 1
          /\ op' # "Dice.roll" => roll_history' = roll_history]_vars

\* C13 witness: three snapshots, the live dice rolled again since the last
\* one, and the two rolled snapshots differ
C13_Witness ==
    /\ Len(roll_history) = 3
    /\ roll_history[2] # roll_history[3]
    /\ op = "roll"
    /\ dice # roll_history[3]

\* C14 as stated: after construction, Dice.roll() and RollManager rolls, the
\* last snapshot equals the live dice and current_total is the sum of the
\* live dice's rolled values.
C14_LastSnapshotIsLiveDice ==
    (/\ op \in {"none", "Dice.roll", "roll", "roll_with_advantage",
                "roll_with_disadvantage"}
     /\ Len(dice) = count) =>
        /\ current_roll(roll_history) = dice
        /\ current_total(roll_history) = sum(dice)

\* C15: previous_roll and previous_total raise IndexError exactly when the
\* history holds one snapshot, and change nothing of the pool; otherwise
\* previous_total returns the sum of the second-to-last snapshot, which is 0
\* right after the first roll.
C15_PreviousNeedsTwoSnapshots ==
    /\ [](op \in {"previous_roll", "previous_total"} =>
            /\ raised = "IndexError" <=> Len(roll_history) = 1
            /\ raised = "none" <=> Len(roll_history) >= 2
            /\ (op = "previous_total" /\ Len(roll_history) >= 2) =>
                 roll_total = sum(roll_history[Len(roll_history) - 1])
            /\ (op = "previous_total" /\ Len(roll_history) = 2) =>
                 roll_total = 0
            /\ (op = "previous_roll" /\ Len(roll_history) >= 2) =>
                 rolled_values = roll_history[Len(roll_history) - 1])
    /\ [][op' \in {"previous_roll", "previous_total"} =>
            UNCHANGED <<dice, roll_history, count>>]_vars

\* C15 witness: previous_total returned the non-zero total of the first of
\* two rolls, which differs from the total of the second
C15_Witness ==
    /\ op = "previous_total"
    /\ raised = "none"
    /\ Len(roll_history) = 3
    /\ roll_total > 0
    /\ roll_total # sum(roll_history[3])

\* C20: remove_lowest_roll / remove_highest_roll on a pool with dice removes
\* exactly the first die showing the lowest / highest value and keeps the
\* others in order; on a pool without dice it raises ValueError and the pool
\* stays empty (so a 2-dice pool is empty after one of each, and the third
\* removal raises).
C20_RemoveExactlyOne ==
    [][/\ op' = "remove_lowest_roll" =>
            IF dice = <<>>
            THEN raised' = "ValueError" /\ dice' = <<>>
            ELSE /\ raised' = "none"
                 /\ \E i \in DOMAIN dice :
                      /\ \A j \in DOMAIN dice : dice[i] <= dice[j]
                      /\ \A j \in 1..(i - 1) : dice[j] > dice[i]
                      /\ dice' = Without(dice, i)
       /\ op' = "remove_highest_roll" =>
            IF dice = <<>>
            THEN raised' = "ValueError" /\ dice' = <<>>
            ELSE /\ raised' = "none"
                 /\ \E i \in DOMAIN dice :
                      /\ \A j \in DOMAIN dice : dice[i] >= dice[j]
                      /\ \A j \in 1..(i - 1) : dice[j] < dice[i]
                      /\ dice' = Without(dice, i)]_vars

\* C20 witness: a pool built with 2 dice is empty and the last removal
\* raised ValueError
C20_Witness ==
    /\ count = 2
    /\ dice = <<>>
    /\ op \in {"remove_lowest_roll", "remove_highest_roll"}
    /\ raised = "ValueError"

\* C21 as stated: the dice list of a pool is never empty, neither after
\* construction nor after Dice.roll and RollManager operations on the pool.
C21_PoolNeverEmpty == Len(dice) >= 1

\* ------------------------------------------ two dice and the operators
\* two dice, each of one of the Die subclasses, never rolled
InitDieObjects ==
    /\ InitBattle
    /\ hp = [f \in Fighters |-> MaxHP]
    /\ attacks = [f \in Fighters |-> Trained]
    /\ InitAttackObjects
    /\ InitPool(1)
    /\ InitRollRecord
    /\ InitArena
    /\ InitNotice
    /\ \E ca \in DieClasses, cb \in DieClasses :
         /\ die_a = new_die(ca)
         /\ die_b = new_die(cb)
    /\ expr = NoExpr

\* the operands an expression can take: the two dice and small ints
Operands == {die_a, die_b} \cup {int(n) : n \in (0 - MaxInt)..MaxInt}

\* die_a.roll()
DieRollA ==
    /\ \E v \in roll_range(die_a.face_count) :
         LET r == die_roll(die_a, v)
         IN  /\ die_a' = r.die
             /\ expr' = [operator |-> "roll", left |-> r.die,
                         right |-> int(0), result |-> returns(r.ret)]
    /\ UNCHANGED <<battleVars, atk_dice, poolVars, rollVars, awareVars, arena, die_b>>

\* die_b.roll()
DieRollB ==
    /\ \E v \in roll_range(die_b.face_count) :
         LET r == die_roll(die_b, v)
         IN  /\ die_b' = r.die
             /\ expr' = [operator |-> "roll", left |-> r.die,
                         right |-> int(0), result |-> returns(r.ret)]
    /\ UNCHANGED <<battleVars, atk_dice, poolVars, rollVars, awareVars, arena, die_a>>

\* `left + right`, `left - right`, `left * right` or `left / right` with at
\* least one die among the operands
EvalBinary ==
    /\ \E operator \in {"+", "-", "*", "/"}, left \in Operands,
          right \in Operands :
         /\ left.kind = "die" \/ right.kind = "die"
         /\ expr' = [operator |-> operator, left |-> left, right |-> right,
                     result |-> binary(operator, left, right)]
    /\ UNCHANGED <<battleVars, atk_dice, poolVars, rollVars, awareVars, arena, die_a, die_b>>

\* `left == right` on two dice
EvalEq ==
    /\ \E left \in {die_a, die_b}, right \in {die_a, die_b} :
         expr' = [operator |-> "==", left |-> left, right |-> right,
                  result |-> die_eq(left, right)]
    /\ UNCHANGED <<battleVars, atk_dice, poolVars, rollVars, awareVars, arena, die_a, die_b>>

\* `left < right` on two dice
EvalLt ==
    /\ \E left \in {die_a, die_b}, right \in {die_a, die_b} :
         expr' = [operator |-> "<", left |-> left, right |-> right,
                  result |-> die_lt(left, right)]
    /\ UNCHANGED <<battleVars, atk_dice, poolVars, rollVars, awareVars, arena, die_a, die_b>>

NextDie ==
    \/ DieRollA
    \/ DieRollB
    \/ EvalBinary
    \/ EvalEq
    \/ EvalLt

SpecDie == InitDieObjects /\ [][NextDie]_vars

\* C16: a die shows 0 until its first roll; every roll leaves rolled in
\* 1..face_count, equal to the value the roll returned; rolled changes by
\* rolls only and face_count never changes.
C16_RolledWithinFaces ==
    /\ die_a.rolled = 0 /\ die_b.rolled = 0
    /\ [][/\ \A d \in {<<die_a, die_a'>>, <<die_b, die_b'>>} :
               /\ d[2].face_count = d[1].face_count
               /\ d[2].cls = d[1].cls
               /\ d[2] # d[1] => expr'.operator = "roll"
          /\ expr'.operator = "roll" =>
               /\ die_a' = expr'.left \/ die_b' = expr'.left
               /\ expr'.left.rolled \in 1..expr'.left.face_count
               /\ expr'.result = returns(expr'.left.rolled)]_vars
    /\ [](\A d \in {die_a, die_b} :
            /\ d.rolled \in 0..d.face_count
            /\ d.face_count = default_face_count(d.cls))

\* C16 witness: the d4 was just rolled and shows 1 while the d6, rolled
\* before, shows its highest face
C16_Witness ==
    /\ expr.operator = "roll"
    /\ die_a.cls = "FourSidedDie"
    /\ die_a.rolled = 1
    /\ die_b.cls = "SixSidedDie"
    /\ die_b.rolled = 6
    /\ expr.left = die_a

\* C17 as stated: for every int n and every die d, `n - d` evaluates to
\* n - d.rolled.
C17_IntMinusDie ==
    (/\ expr.operator = "-"
     /\ expr.left.kind = "int"
     /\ expr.right.kind = "die") =>
        expr.result = returns(expr.left.value - expr.right.rolled)

C19_ComparedByRolledOnly ==
    /\ expr.operator = "==" =>
         expr.result = returns(expr.left.rolled = expr.right.rolled)
    /\ expr.operator = "<" =>
         expr.result = returns(expr.left.rolled < expr.right.rolled)

\* C23: learn_attack is idempotent: learning an attack the fighter holds
\* leaves the list as it is, learning twice gives what learning once gives,
\* and no list of learned attacks holds the same Attack object twice.
C23_LearnAttackIdempotent ==
    /\ [](\A f \in Fighters :
            /\ \A i, j \in DOMAIN attacks[f] :
                 attacks[f][i] = attacks[f][j] => i = j
            /\ \A a \in AttackObjects :
                 learn_attack(learn_attack(attacks[f], a), a)
                    = learn_attack(attacks[f], a))
    /\ [][op' = "learn_attack" =>
            /\ contains(attacks'[caller'], target')
            /\ contains(attacks[caller'], target') => attacks' = attacks
            /\ ~contains(attacks[caller'], target') =>
                 attacks' = [attacks EXCEPT ![caller'] = Append(@, target')]]_vars

\* C23 witness: fighter 1 holds both attacks and was last told to learn the
\* one it learned first
C23_Witness ==
    /\ op = "learn_attack"
    /\ caller = 1
    /\ target = 1
    /\ attacks[1] = <<1, 2>>

\* --------------------------------- update_awareness called by a caller
\* two fighters as Fighter.__init__ leaves them, with every pair of chances
\* it can draw
InitAwareness ==
    /\ InitBattle
    /\ hp = [f \in Fighters |-> MaxHP]
    /\ attacks = [f \in Fighters |-> Trained]
    /\ InitAttackObjects
    /\ InitPool(1)
    /\ InitRollRecord
    /\ InitArena
    /\ InitDie
    /\ weights \in [Fighters -> FighterWeights]
    /\ drawn = None
    /\ notice = None

\* fighter.update_awareness()
FighterUpdateAwareness ==
    /\ \E f \in Fighters :
         \E new_awareness \in choices(weights[f]) :
            /\ awareness' = [awareness EXCEPT
                               ![f] = update_awareness(@, new_awareness)]
            /\ notice' = awareness_notice(awareness[f], new_awareness)
            /\ drawn' = new_awareness
            /\ caller' = f
    /\ op' = "update_awareness"
    /\ target' = 0
    /\ rolled_values' = <<>>
    /\ roll_total' = None
    /\ raised' = "none"
    /\ UNCHANGED <<battle_in_progress, pc, attacker, defender, hp, attacks, d20,
                   atk_dice, chosen, cast, damage, weights>>
    /\ UNCHANGED <<poolVars, dieVars, arena>>

NextAwareness == FighterUpdateAwareness

SpecAwareness == InitAwareness /\ [][NextAwareness]_vars

\* C22: awareness starts as PRESENT and is always FOCUSED, PRESENT or
\* DISTRACTED; an update_awareness call leaves the fighter in the drawn state
\* and prints the change exactly when the drawn state differs from the state
\* before the call; a repeated draw changes nothing and prints nothing; the
\* weights never change.
C22_AwarenessFollowsDraw ==
    /\ awareness = [f \in Fighters |-> "PRESENT"]
    /\ [](\A f \in Fighters : awareness[f] \in FighterAwareness)
    /\ [][/\ weights' = weights
          /\ op' = "update_awareness" =>
               /\ awareness'[caller'] = drawn'
               /\ \A f \in Fighters \ {caller'} : awareness'[f] = awareness[f]
               /\ notice' # None <=> drawn' # awareness[caller']
               /\ notice' # None => notice' = drawn'
               /\ drawn' = awareness[caller'] =>
                    awareness' = awareness /\ notice' = None]_vars

\* C22 witness: a DISTRACTED draw on fighter 1 was printed, fighter 2 is
\* FOCUSED after an earlier call
C22_Witness ==
    /\ op = "update_awareness"
    /\ caller = 1
    /\ drawn = "DISTRACTED"
    /\ notice = "DISTRACTED"
    /\ awareness = <<"DISTRACTED", "FOCUSED">>

\* ------------------------------------------- two battles side by side
\* two pairs of fighters, each fighter taught the first attack; each pair
\* is passed to its own BattleMediator().start_battle call, and the calls
\* are interleaved at the steps of the battle loop. Both share
\* BattleMediator._battle_in_progress, a class attribute of the one
\* BattleMediator instance.
InitTwoBattles ==
    /\ battle_in_progress = FALSE
    /\ pc = "idle"
    /\ attacker = 0
    /\ defender = 0
    /\ hp = [f \in Fighters |-> MaxHP]
    /\ awareness = [f \in Fighters |-> "PRESENT"]
    /\ attacks = [f \in Fighters |-> learn_attack(<<>>, 1)]
    /\ d20 = [f \in Fighters |-> 0]
    /\ chosen = 0
    /\ cast = "none"
    /\ damage = 0
    /\ InitAttackObjects
    /\ InitPool(1)
    /\ InitRollRecord
    /\ InitArena
    /\ InitNotice
    /\ InitDie

\* what no step of the two battles writes
ArenaFrame ==
    UNCHANGED <<pc, attacker, defender, hp, awareness, attacks, d20, chosen,
                cast, damage, poolVars, rollVars, dieVars, awareVars>>

\* start_battle of battle b up to the head of the loop
ArenaStartBattle ==
    \E b \in Battles :
        /\ arena[b].pc = "idle"
        /\ \E r1, r2 \in 1..D20Faces :
             LET order == roll_initiative(1, 2, r1, r2)
             IN  arena' = [arena EXCEPT ![b].attacker = order[1],
                                        ![b].defender = order[2],
                                        ![b].pc = "update"]
        /\ battle_in_progress' = TRUE
        /\ UNCHANGED atk_dice
        /\ ArenaFrame

\* loop test of battle b passed: attacker.update_awareness()
ArenaUpdateAwareness ==
    \E b \in Battles :
        /\ arena[b].pc = "update"
        /\ battle_in_progress
        /\ \E new_awareness \in FighterAwareness :
             arena' = [arena EXCEPT
                         ![b].awareness[arena[b].attacker] =
                             update_awareness(@, new_awareness),
                         ![b].pc = "attack"]
        /\ UNCHANGED <<battle_in_progress, atk_dice>>
        /\ ArenaFrame

\* rest of the loop body of battle b
ArenaAttack ==
    \E b \in Battles :
        /\ arena[b].pc = "attack"
        /\ LET att == arena[b].attacker
               def == arena[b].defender
           IN  \E i \in DOMAIN attacks[att], attack_roll, defense_roll \in 1..D20Faces :
                 LET a == attacks[att][i]
                     c == damage_cast(arena[b].awareness[att])
                 IN  \E rolls \in IF hits(attack_roll, defense_roll)
                                  THEN Outcomes(dice_rolled(c, a)) ELSE {<<>>} :
                       LET res == cast_result(c, att, a, rolls)
                           new_hp == IF hits(attack_roll, defense_roll)
                                     THEN apply_damage(arena[b].hp[def], res.total)
                                     ELSE arena[b].hp[def]
                       IN  /\ atk_dice' = IF hits(attack_roll, defense_roll)
                                          THEN [atk_dice EXCEPT ![a] = res.dice]
                                          ELSE atk_dice
                           /\ arena' = [arena EXCEPT
                                          ![b].hp[def] = new_hp,
                                          ![b].attacker = swap(att, def)[1],
                                          ![b].defender = swap(att, def)[2],
                                          ![b].pc = "update"]
                           /\ battle_in_progress' =
                                IF defeated(new_hp) THEN end_battle
                                ELSE battle_in_progress
        /\ ArenaFrame

\* loop test of battle b failed: battle() and start_battle() return
ArenaReturn ==
    \E b \in Battles :
        /\ arena[b].pc = "update"
        /\ ~battle_in_progress
        /\ arena' = [arena EXCEPT ![b].pc = "done"]
        /\ UNCHANGED <<battle_in_progress, atk_dice>>
        /\ ArenaFrame

NextTwoBattles ==
    \/ ArenaStartBattle
    \/ ArenaUpdateAwareness
    \/ ArenaAttack
    \/ ArenaReturn

SpecTwoBattles == InitTwoBattles /\ [][NextTwoBattles]_vars

\* C24 as stated: with two battles interleaved, the loop of a battle exits
\* only after the defender of its own last turn (the attacker after the
\* swap) has hit points <= 0; a battle whose fighters both have hit points
\* > 0 is never stopped by the other one ending.
C24_BattlesDoNotStopEachOther ==
    \A b \in Battles :
        arena[b].pc = "done" =>
            /\ arena[b].attacker # 0
            /\ arena[b].hp[arena[b].attacker] <= 0

====
